---- MODULE Spec2Model ----
(***************************************************************************)
(* Crawler (src/src/app/crawler.ts): a depth-bounded web crawler.          *)
(*                                                                         *)
(* Strings are sequences of one-character strings, so that url.parse and   *)
(* the template string of cleanURL are computed character by character.    *)
(* The crawl is a sequential async program: the stack holds one frame per  *)
(* suspended or running readResourceContent call, the top frame runs.      *)
(***************************************************************************)
EXTENDS Integers, Sequences, FiniteSets, TLC

\* ------------------------------------------------------------------ bounds
\* Largest number of elements the link selector matches on one page.
MaxMatches == 2
\* Largest number of elements one asset selector matches on one page.
MaxAssetMatches == 1
\* Largest configured maxDepth explored.
DepthBound == 2

\* ----------------------------------------------------------------- strings
Undefined == <<"undefined">>
Null == <<"null">>

Falsy(s) == s = Undefined \/ s = Null \/ s = <<>>

Lower == {"a","b","c","d","e","f","g","h","i","j","k","l","m",
          "n","o","p","q","r","s","t","u","v","w","x","y","z"}
Digit == {"0","1","2","3","4","5","6","7","8","9"}

\* String.prototype.toLowerCase on the letters A-Z.
UpperSeq == <<"A","B","C","D","E","F","G","H","I","J","K","L","M",
              "N","O","P","Q","R","S","T","U","V","W","X","Y","Z">>
LowerSeq == <<"a","b","c","d","e","f","g","h","i","j","k","l","m",
              "n","o","p","q","r","s","t","u","v","w","x","y","z">>
Upper == {UpperSeq[k] : k \in 1..26}
ToLowerChar(c) ==
  IF c \in Upper THEN LowerSeq[CHOOSE k \in 1..26 : UpperSeq[k] = c] ELSE c
ToLower(s) == [k \in 1..Len(s) |-> ToLowerChar(s[k])]

\* First index of s holding a character of cs, Len(s) + 1 when there is none.
IndexOfAny(s, cs) ==
  IF \E k \in 1..Len(s) : s[k] \in cs
    THEN CHOOSE k \in 1..Len(s) : s[k] \in cs /\ \A m \in 1..(k - 1) : s[m] \notin cs
    ELSE Len(s) + 1

Drop(s, k) == SubSeq(s, k + 1, Len(s))
Take(s, k) == SubSeq(s, 1, k)

StartsWith(s, p) == Len(s) >= Len(p) /\ Take(s, Len(p)) = p

\* ------------------------------------------------------- url.parse (legacy)
\* protocolPattern /^[a-z0-9.+-]+:/i : length of the match, 0 when none.
ProtocolEnd(s) ==
  LET k == IndexOfAny(s, {":"})
  IN IF k >= 2 /\ k <= Len(s) /\ \A m \in 1..(k - 1) : s[m] \in Lower \cup Upper \cup Digit \cup {".", "+", "-"}
       THEN k ELSE 0

HTTP == <<"h","t","t","p",":">>
HTTPS == <<"h","t","t","p","s",":">>
FTP == <<"f","t","p",":">>
FILE == <<"f","i","l","e",":">>
JAVASCRIPT == <<"j","a","v","a","s","c","r","i","p","t",":">>

SlashedProtocol == {HTTP, HTTPS, FTP, FILE}
HostlessProtocol == {JAVASCRIPT}

\* portPattern /:[0-9]*$/ on the host: index of the ":" it matches, 0 when none.
PortStart(host) ==
  IF \E k \in 1..Len(host) : host[k] = ":" /\ \A m \in (k + 1)..Len(host) : host[m] \in Digit
    THEN CHOOSE k \in 1..Len(host) :
           /\ host[k] = ":" /\ \A m \in (k + 1)..Len(host) : host[m] \in Digit
           /\ \A k2 \in 1..(k - 1) :
                ~(host[k2] = ":" /\ \A m \in (k2 + 1)..Len(host) : host[m] \in Digit)
    ELSE 0

\* url.parse(path) with slashesDenoteHost = false, as a chain of steps, each
\* handing what it found to the next.  The result holds the fields cleanURL
\* and the constructor read; absent fields are Null, as in Node.

\* The path: what is left before the first "?"; "/" for a slashed protocol
\* with a hostname and no path.
ParsePath(proto, hostname, port, rest5) ==
  [protocol |-> proto,
   hostname |-> hostname,
   port     |-> port,
   pathname |-> IF rest5 # <<>> THEN rest5
                ELSE IF proto \in SlashedProtocol /\ ~Falsy(hostname) THEN <<"/">>
                ELSE Null]

\* The hash and the query are cut off.
ParseQuery(proto, hostname, port, rest4) ==
  ParsePath(proto, hostname, port, Take(rest4, IndexOfAny(rest4, {"?"}) - 1))

\* "hostnames are always lower case".
LowerHostname(s) == ToLower(s)

\* The port is cut off the host; ps is where portPattern matches.
ParsePort(proto, hasHost, host, ps, rest3) ==
  ParseQuery(proto,
             IF ~hasHost THEN Null
             ELSE LowerHostname(IF ps > 0 THEN Take(host, ps - 1) ELSE host),
             IF ps > 0 /\ ps < Len(host) THEN Drop(host, ps) ELSE Null,
             Take(rest3, IndexOfAny(rest3, {"#"}) - 1))

\* The host runs to the first "/", "?" or "#".
ParseHost(proto, hasHost, rest2, hostEnd) ==
  ParsePort(proto, hasHost, Take(rest2, hostEnd - 1),
            PortStart(Take(rest2, hostEnd - 1)), Drop(rest2, hostEnd - 1))

\* There is a host after "//", or after a protocol that is not a slashed one.
ParseSlashes(proto, rest1, slashes, hostless) ==
  ParseHost(proto,
            ~hostless /\ (slashes \/ (proto # Null /\ proto \notin SlashedProtocol)),
            IF slashes /\ ~hostless THEN Drop(rest1, 2) ELSE rest1,
            IF ~hostless /\ (slashes \/ (proto # Null /\ proto \notin SlashedProtocol))
              THEN IndexOfAny(IF slashes THEN Drop(rest1, 2) ELSE rest1, {"/", "?", "#"})
              ELSE 1)

\* The protocol is lower-cased.
ParseProtocol(s, pe) ==
  ParseSlashes(IF pe > 0 THEN ToLower(Take(s, pe)) ELSE Null,
               Drop(s, pe),
               pe > 0 /\ StartsWith(Drop(s, pe), <<"/", "/">>),
               pe > 0 /\ ToLower(Take(s, pe)) \in HostlessProtocol)

UrlParse(s) == ParseProtocol(s, ProtocolEnd(s))

\* ------------------------------------------------------------ construction
\* The seed URL given to the constructor.
URL == <<"h","t","t","p",":","/","/","a">>

HOSTNAME == UrlParse(URL).hostname
PROTOCOL == UrlParse(URL).protocol
PORT     == UrlParse(URL).port

\* The template string with a pathname "/" kept.
FormatURLKeepSlash(protocol, hostname, port, pathname) ==
  protocol \o <<"/", "/">> \o hostname
    \o (IF ~Falsy(port) THEN port ELSE <<>>)
    \o (IF ~Falsy(pathname) THEN pathname ELSE <<>>)

\* Line 161: the template string.
FormatURL(protocol, hostname, port, pathname) ==
  protocol \o <<"/", "/">> \o hostname
    \o (IF ~Falsy(port) THEN port ELSE <<>>)
    \o (IF ~Falsy(pathname) /\ pathname # <<"/">> THEN pathname ELSE <<>>)

\* Lines 149-161: the parts of the path itself when it has a hostname, of the
\* seed otherwise.
ResolveURL(pathInfo) ==
  IF ~Falsy(pathInfo.hostname)
    THEN FormatURL(pathInfo.protocol, pathInfo.hostname, pathInfo.port, pathInfo.pathname)
    ELSE FormatURL(PROTOCOL, HOSTNAME, PORT, pathInfo.pathname)

\* cleanURL(path): undefined for a falsy path.
cleanURL(path) == IF Falsy(path) THEN Undefined ELSE ResolveURL(UrlParse(path))

\* ------------------------------------------------------------------ inputs
\* Attribute values an element can carry: no attribute, "/", "/x", "/y",
\* "http://a/x" and "#".
ROOT  == <<"/">>
X     == <<"/", "x">>
Y     == <<"/", "y">>
ABS_X == URL \o X
HASH  == <<"#">>
Raw == {Undefined, ROOT, X, Y, ABS_X, HASH}

\* Line 185 for every attribute value a page can carry: cleanURL(path).
CleanedRaw == [path \in Raw |-> cleanURL(path)]

\* What fetchPageContent returns: the error value axios rejects with (it has
\* no status), or a response with a status.
ErrorValue == [error |-> TRUE, status |-> 0]
Statuses == {199, 200, 299, 300, 404}
Responses == {ErrorValue} \cup {[error |-> FALSE, status |-> s] : s \in Statuses}
NoResponse == [error |-> TRUE, status |-> -1]

\* ------------------------------------------------------------------- rules
LINK_RESOURCE == [selector |-> "a", attribute |-> "href"]
ASSET_RESOURCES == <<[selector |-> "img", attribute |-> "src"],
                     [selector |-> "script", attribute |-> "src"],
                     [selector |-> "link[rel=stylesheet]", attribute |-> "href"]>>

\* -------------------------------------------------------------------- state
VARIABLES
  maxDepth,            \* CRAWLER_OPTIONS.maxDepth
  includeAssets,       \* CRAWLER_OPTIONS.includeAssets
  currentDepth,        \* this.currentDepth
  scannedHosts,        \* this.scannedHosts
  scannedResourceInfo, \* this.scannedResourceInfo
  stack,               \* the readResourceContent calls, innermost last
  inflight,            \* URLs given to axios.get and not yet answered
  response,            \* the const response of lines 195 and 277, while in scope
  runState,            \* where run() is
  promise,             \* the promise run() returned
  result,              \* the value that promise resolved with
  fetchLog,            \* the argument of every fetchPageContent call so far
  linkFetches,         \* how many of them a call for the link rule has made
  probe                \* a cleanURL call on its own: its argument and results

vars == <<maxDepth, includeAssets, currentDepth, scannedHosts, scannedResourceInfo,
          stack, inflight, response, runState, promise, result, fetchLog,
          linkFetches, probe>>

crawlVars == <<maxDepth, includeAssets, currentDepth, scannedHosts, scannedResourceInfo,
               stack, inflight, response, runState, promise, result, fetchLog,
               linkFetches>>

\* No cleanURL call is made on its own during a crawl.
NoProbe == [pc |-> "off", auth |-> <<>>, port |-> <<>>, path |-> <<>>, tail |-> <<>>,
            out |-> Undefined, again |-> Undefined, slashed |-> Undefined]

config == <<maxDepth, includeAssets>>

\* ------------------------------------------------------------------ helpers
\* Line 179 with > written for ===.
DepthExceeded(depth, max) == depth > max

\* Line 179: the depth gate.
DepthReached(depth, max) == depth = max

\* Line 183 left out.
NeverRootPath(path) == FALSE

\* Line 183.
IsRootPath(path) == path = ROOT

\* Array.prototype.includes.
Includes(arr, v) == \E k \in 1..Len(arr) : arr[k] = v

\* Line 187 without the includes test.
IsAnyHost(currentHost, hosts) == ~Falsy(currentHost)

\* Line 187.
IsNewHost(currentHost, hosts) == ~Falsy(currentHost) /\ ~Includes(hosts, currentHost)

\* Lines 257-259 without the upper limit.
isStatusFrom200(r) == ~r.error /\ r.status >= 200

\* Lines 257-259.  A comparison with the undefined status of an error value
\* is false.
isSuccessResponse(r) == ~r.error /\ r.status >= 200 /\ r.status < 300

\* Line 209 with < written for <=.
ShouldScanBelow(depth, max) == depth = 0 \/ depth < max

\* Line 209.
ShouldScan(depth, max) == depth = 0 \/ depth <= max

\* The resources argument of a call.
ResourcesOf(kind) == IF kind = "asset" THEN ASSET_RESOURCES ELSE <<LINK_RESOURCE>>

\* incrDepth given as true by scanResourceAsset too.
AlwaysIncrDepth(kind) == TRUE

\* The incrDepth argument of a call: false in line 237, true in line 248.
IncrDepth(kind) == kind = "link"
MatchBound(kind) == IF kind = "asset" THEN MaxAssetMatches ELSE MaxMatches

\* A readResourceContent call at its first statement.  page is the URL whose
\* content is scanned, via tells how that content was fetched ("seed", or the
\* kind of the call that fetched it); elem is the attribute value of
\* selectors[j], the element the loop is at, or broke at.
Frame(kind, page, via) ==
  [kind |-> kind, page |-> page, via |-> via, i |-> 1, j |-> 0,
   elem |-> Undefined, currentHost |-> Undefined, pc |-> "resource"]

\* scanPage(content) without lines 223-225: scanResourceLink at once.
scanPageLinksOnly(page, via, assets) == Frame("link", page, via)

\* scanPage(content): scanResourceAsset first when includeAssets is set, else
\* scanResourceLink at once.
scanPage(page, via, assets) == Frame(IF assets THEN "asset" ELSE "link", page, via)

Top == stack[Len(stack)]
SetTop(f) == [stack EXCEPT ![Len(stack)] = f]
Running(pc) == stack # <<>> /\ Top.pc = pc

\* Line 195 without its await: the loop goes on while the fetch is out.
FireAndForget(f, host) == [f EXCEPT !.j = f.j + 1, !.pc = "selector", !.elem = Undefined]

\* After the await of line 195 is reached the call is suspended.
Suspend(f, host) == [f EXCEPT !.pc = "fetch", !.currentHost = host, !.elem = Undefined]

\* The loop of line 176 goes on with the next element.
Continue(f) == [f EXCEPT !.j = f.j + 1, !.pc = "selector", !.elem = Undefined,
                         !.currentHost = Undefined]

\* Line 210 without its await: the loop goes on while scanPage runs.
NoAwaitScan(f) == Continue(f)

\* Line 210: the call is suspended until scanPage returns.
AwaitScan(f) == [f EXCEPT !.pc = "scan"]

\* -------------------------------------------------------------------- Init
\* The state after construction, for every configuration explored; maxDepth
\* -1 stands for the values the depth counter never equals.
Init ==
  /\ maxDepth \in (-1)..DepthBound
  /\ includeAssets \in BOOLEAN
  /\ currentDepth = 0
  /\ scannedHosts = <<>>
  /\ scannedResourceInfo = <<>>
  /\ stack = <<>>
  /\ inflight = <<>>
  /\ response = NoResponse
  /\ runState = "idle"
  /\ promise = "none"
  /\ result = <<>>
  /\ fetchLog = <<>>
  /\ linkFetches = 0
  /\ probe = NoProbe

\* ----------------------------------------------------------------- actions
\* run(), lines 273-276: the promise is created and the seed is fetched.
Run ==
  /\ runState = "idle"
  /\ runState' = "seed"
  /\ promise' = "pending"
  /\ inflight' = Append(inflight, URL)
  /\ fetchLog' = Append(fetchLog, URL)
  /\ UNCHANGED <<config, probe, linkFetches, currentDepth, scannedHosts, scannedResourceInfo, stack,
                 response, result>>

\* Lines 277-281: the seed answer; scanPage is called on success only, and
\* nothing is done otherwise.
SeedResponse ==
  /\ runState = "seed"
  /\ inflight # <<>>
  /\ \E r \in Responses :
       /\ response' = r
       /\ inflight' = Tail(inflight)
       /\ IF isSuccessResponse(r)
            THEN /\ stack' = <<scanPage(URL, "seed", includeAssets)>>
                 /\ runState' = "scanning"
            ELSE /\ stack' = stack
                 /\ runState' = "returned"
  /\ UNCHANGED <<config, probe, linkFetches, currentDepth, scannedHosts, scannedResourceInfo, promise,
                 result, fetchLog>>

\* Lines 170-172: the next rule of the call is queried.
NextResource ==
  /\ Running("resource")
  /\ Top.i <= Len(ResourcesOf(Top.kind))
  /\ stack' = SetTop([Top EXCEPT !.j = 0, !.pc = "selector", !.elem = Undefined])
  /\ response' = NoResponse
  /\ UNCHANGED <<config, probe, linkFetches, currentDepth, scannedHosts, scannedResourceInfo, inflight,
                 runState, promise, result, fetchLog>>

\* Lines 174-176: the test j < selectors.length.  The page decides how many
\* elements the selector matches (at most MatchBound) and which attribute
\* value element j carries; both are drawn when the loop gets there.
NextSelector ==
  /\ Running("selector")
  /\ \/ /\ Top.j < MatchBound(Top.kind)
        /\ \E path \in Raw : stack' = SetTop([Top EXCEPT !.elem = path, !.pc = "body"])
     \/ stack' = SetTop([Top EXCEPT !.i = Top.i + 1, !.j = 0, !.pc = "resource"])
  /\ response' = NoResponse
  /\ UNCHANGED <<config, probe, linkFetches, currentDepth, scannedHosts, scannedResourceInfo, inflight,
                 runState, promise, result, fetchLog>>

\* Line 179: break out of the element loop of this rule.
DepthGate ==
  /\ Running("body")
  /\ DepthReached(currentDepth, maxDepth)
  /\ stack' = SetTop([Top EXCEPT !.i = Top.i + 1, !.j = 0, !.pc = "resource"])
  /\ response' = NoResponse
  /\ UNCHANGED <<config, probe, linkFetches, currentDepth, scannedHosts, scannedResourceInfo, inflight,
                 runState, promise, result, fetchLog>>

\* Line 183: continue on the path "/".
SkipRoot ==
  /\ Running("body")
  /\ ~DepthReached(currentDepth, maxDepth)
  /\ IsRootPath(Top.elem)
  /\ stack' = SetTop(Continue(Top))
  /\ response' = NoResponse
  /\ UNCHANGED <<config, probe, linkFetches, currentDepth, scannedHosts, scannedResourceInfo, inflight,
                 runState, promise, result, fetchLog>>

\* Lines 185-187, condition false: nothing is done for this element.
SkipKnown ==
  /\ Running("body")
  /\ ~DepthReached(currentDepth, maxDepth)
  /\ ~IsRootPath(Top.elem)
  /\ ~IsNewHost(CleanedRaw[Top.elem], scannedHosts)
  /\ stack' = SetTop(Continue(Top))
  /\ response' = NoResponse
  /\ UNCHANGED <<config, probe, linkFetches, currentDepth, scannedHosts, scannedResourceInfo, inflight,
                 runState, promise, result, fetchLog>>

\* Lines 185-195: the host is pushed, the depth incremented for a link, the
\* fetch issued and awaited.
Admit ==
  /\ Running("body")
  /\ ~DepthReached(currentDepth, maxDepth)
  /\ ~IsRootPath(Top.elem)
  /\ LET currentHost == CleanedRaw[Top.elem]
     IN /\ IsNewHost(currentHost, scannedHosts)
        /\ scannedHosts' = Append(scannedHosts, currentHost)
        /\ currentDepth' = IF IncrDepth(Top.kind) THEN currentDepth + 1 ELSE currentDepth
        /\ inflight' = Append(inflight, currentHost)
        /\ fetchLog' = Append(fetchLog, currentHost)
        /\ linkFetches' = IF Top.kind = "link" THEN linkFetches + 1 ELSE linkFetches
        /\ stack' = SetTop(Suspend(Top, currentHost))
  /\ response' = NoResponse
  /\ UNCHANGED <<config, probe, scannedResourceInfo, runState, promise, result>>

\* Lines 195-212: the answer of the awaited fetch.  A record is modelled by
\* its resource; its size (line 206) decides nothing in the crawl.
FetchResponse ==
  /\ Running("fetch")
  /\ inflight # <<>>
  /\ \E r \in Responses :
       /\ response' = r
       /\ inflight' = Tail(inflight)
       /\ IF isSuccessResponse(r)
            THEN /\ scannedResourceInfo' =
                      Append(scannedResourceInfo, [resource |-> Top.currentHost])
                 /\ IF ShouldScan(currentDepth, maxDepth)
                      THEN stack' = Append(SetTop(AwaitScan(Top)),
                                           scanPage(Top.currentHost, Top.kind, includeAssets))
                      ELSE stack' = SetTop(Continue(Top))
            ELSE /\ scannedResourceInfo' = scannedResourceInfo
                 /\ stack' = SetTop(Continue(Top))
  /\ UNCHANGED <<config, probe, linkFetches, currentDepth, scannedHosts, runState, promise, result, fetchLog>>

\* Lines 223-226: scanResourceAsset is over, scanResourceLink starts on the
\* same content.
AssetsDone ==
  /\ Running("resource")
  /\ Top.i > Len(ResourcesOf(Top.kind))
  /\ Top.kind = "asset"
  /\ stack' = SetTop(Frame("link", Top.page, Top.via))
  /\ response' = NoResponse
  /\ UNCHANGED <<config, probe, linkFetches, currentDepth, scannedHosts, scannedResourceInfo, inflight,
                 runState, promise, result, fetchLog>>

\* Lines 226-227 and 210: scanResourceLink is over, scanPage returns to the
\* readResourceContent call awaiting it.
ScanPageReturn ==
  /\ Running("resource")
  /\ Top.i > Len(ResourcesOf(Top.kind))
  /\ Top.kind = "link"
  /\ Len(stack) > 1
  /\ LET below == SubSeq(stack, 1, Len(stack) - 1)
     IN stack' = [below EXCEPT ![Len(below)] = Continue(below[Len(below)])]
  /\ response' = NoResponse
  /\ UNCHANGED <<config, probe, linkFetches, currentDepth, scannedHosts, scannedResourceInfo, inflight,
                 runState, promise, result, fetchLog>>

\* Lines 281-283 without the call of resolve.
ReturnUnresolved ==
  /\ Running("resource")
  /\ Top.i > Len(ResourcesOf(Top.kind))
  /\ Top.kind = "link"
  /\ Len(stack) = 1
  /\ runState = "scanning"
  /\ stack' = <<>>
  /\ runState' = "returned"
  /\ response' = NoResponse
  /\ UNCHANGED <<config, probe, linkFetches, currentDepth, scannedHosts, scannedResourceInfo, inflight,
                 promise, result, fetchLog>>

\* Lines 281-283: the scan of the seed page is over, the promise resolves.
Resolve ==
  /\ Running("resource")
  /\ Top.i > Len(ResourcesOf(Top.kind))
  /\ Top.kind = "link"
  /\ Len(stack) = 1
  /\ runState = "scanning"
  /\ stack' = <<>>
  /\ runState' = "returned"
  /\ promise' = "resolved"
  /\ result' = scannedResourceInfo
  /\ response' = NoResponse
  /\ UNCHANGED <<config, probe, linkFetches, currentDepth, scannedHosts, scannedResourceInfo, inflight,
                 fetchLog>>

Next ==
  \/ Run
  \/ SeedResponse
  \/ NextResource
  \/ NextSelector
  \/ DepthGate
  \/ SkipRoot
  \/ SkipKnown
  \/ Admit
  \/ FetchResponse
  \/ AssetsDone
  \/ ScanPageReturn
  \/ Resolve

Spec == Init /\ [][Next]_vars

\* Every fetch is answered and the event loop runs whatever can run.
FairSpec == Spec /\ WF_vars(Next)

\* ------------------------------------------------------- cleanURL on its own
\* cleanURL is a method of the constructed crawler that reads only URL,
\* HOSTNAME, PROTOCOL and PORT.  Its argument is put together from an
\* authority (none, the seed's, another host, an upper-case spelling, another
\* protocol), a port, a path and a query or hash.
URL_B     == <<"h","t","t","p",":","/","/","b">>
URL_UPPER == <<"H","T","T","P",":","/","/","A">>
URL_HTTPS == <<"h","t","t","p","s",":","/","/","a">>
REL_X     == <<"x">>
REL_UPPER == <<"X">>
Authorities == {<<>>, URL, URL_B, URL_UPPER, URL_HTTPS}
Ports       == {<<>>, <<":">>, <<":", "8">>}
Paths       == {<<>>, ROOT, X, REL_X, REL_UPPER}
Tails       == {<<>>, <<"?", "q">>, <<"#", "f">>}

\* A port stands after an authority and before a path that starts with "/".
Candidates ==
  {[pc |-> "start", auth |-> a, port |-> p, path |-> h, tail |-> t,
    out |-> Undefined, again |-> Undefined, slashed |-> Undefined] :
     a \in Authorities, p \in Ports, h \in Paths, t \in Tails}

WellFormed(c) == c.port # <<>> => c.auth # <<>> /\ c.path \in {<<>>, ROOT, X}

Text(c) == c.auth \o c.port \o c.path \o c.tail
TextSlashed(c) == c.auth \o c.port \o ROOT \o c.tail

InitURL ==
  /\ maxDepth = 0
  /\ includeAssets = FALSE
  /\ currentDepth = 0
  /\ scannedHosts = <<>>
  /\ scannedResourceInfo = <<>>
  /\ stack = <<>>
  /\ inflight = <<>>
  /\ response = NoResponse
  /\ runState = "idle"
  /\ promise = "none"
  /\ result = <<>>
  /\ fetchLog = <<>>
  /\ linkFetches = 0
  /\ probe \in {c \in Candidates : WellFormed(c)}

\* cleanURL(path).
Clean ==
  /\ probe.pc = "start"
  /\ probe' = [probe EXCEPT !.pc = "cleaned", !.out = cleanURL(Text(probe))]
  /\ UNCHANGED crawlVars

\* cleanURL on what cleanURL returned.
CleanAgain ==
  /\ probe.pc = "cleaned"
  /\ probe.out # Undefined
  /\ probe' = [probe EXCEPT !.pc = "again", !.again = cleanURL(probe.out)]
  /\ UNCHANGED crawlVars

\* cleanURL on the same argument with the path "/" in place of no path.
CleanSlashed ==
  /\ probe.pc = "cleaned"
  /\ probe.path = <<>>
  /\ probe' = [probe EXCEPT !.pc = "slashed", !.slashed = cleanURL(TextSlashed(probe))]
  /\ UNCHANGED crawlVars

NextURL ==
  \/ Clean
  \/ CleanAgain
  \/ CleanSlashed

SpecURL == InitURL /\ [][NextURL]_vars

\* ------------------------------------------------------------------ claims
Distinct(seq) == \A a, b \in 1..Len(seq) : a # b => seq[a] # seq[b]
Resources == [k \in 1..Len(scannedResourceInfo) |-> scannedResourceInfo[k].resource]
Failure(r) == r # NoResponse /\ (r.error \/ r.status < 200 \/ r.status >= 300)

\* C1: in every reachable state no two entries of scannedResourceInfo have
\* the same resource.
C1_NoDuplicateRecords == Distinct(Resources)

\* A second element with the canonical URL of a recorded resource is being
\* examined on the page whose first such element produced the record.
C1_Witness ==
  /\ Running("body")
  /\ Top.j >= 1
  /\ ~DepthReached(currentDepth, maxDepth)
  /\ Includes(Resources, cleanURL(Top.elem))
  /\ Len(scannedResourceInfo) >= 2

\* C2: no URL is passed to fetchPageContent twice in a crawl run, the seed
\* fetch of run() counted with the fetches of readResourceContent.
C2_AtMostOneFetchPerUrl == Distinct(fetchLog)

\* C3: when the seed fetch has failed and the callback of run() has returned,
\* the promise is resolved, with an empty list.
C3_SeedFailureResolvesEmpty ==
  (runState = "returned" /\ Failure(response)) => (promise = "resolved" /\ result = <<>>)

\* C4: no readResourceContent call scans content that was fetched through an
\* asset rule.
C4_NoScanOfAssetContent == \A k \in 1..Len(stack) : stack[k].via # "asset"

\* C5: with maxDepth = 0 and includeAssets, an asset element of the seed page
\* whose attribute is not "/" and canonicalizes to a non-empty URL not yet
\* visited is fetched by the step that examines it.
C5_SeedAssetsFetchedAtDepthZero ==
  [][(/\ maxDepth = 0
      /\ includeAssets
      /\ Running("body")
      /\ Top.kind = "asset"
      /\ Top.via = "seed"
      /\ ~IsRootPath(Top.elem)
      /\ IsNewHost(cleanURL(Top.elem), scannedHosts))
     => inflight' = <<cleanURL(Top.elem)>>]_vars

\* C6: with maxDepth = 0 the depth counter stays 0, nothing is admitted or
\* recorded, nothing but the seed is fetched and no scan is nested in the
\* scan of the seed page.
C6_NoDescentAtDepthZero ==
  maxDepth = 0 =>
    /\ currentDepth = 0
    /\ scannedHosts = <<>>
    /\ scannedResourceInfo = <<>>
    /\ fetchLog \in {<<>>, <<URL>>}
    /\ Len(stack) <= 1

\* The link rule of the seed page was left at an anchor to /x.
C6_Witness ==
  /\ maxDepth = 0
  /\ Running("resource")
  /\ Top.kind = "link"
  /\ Top.i = 2
  /\ Top.elem = X

\* C7: once the depth counter equals maxDepth it stays there and no step of
\* the scan admits or fetches anything; a step that examines an element then
\* leaves the element loop of its rule.
C7_DepthGateIsGlobal ==
  [][(runState = "scanning" /\ currentDepth = maxDepth)
     => /\ currentDepth' = currentDepth
        /\ fetchLog' = fetchLog
        /\ scannedHosts' = scannedHosts
        /\ Len(inflight') <= Len(inflight)
        /\ Running("body") =>
             /\ Len(stack') = Len(stack)
             /\ stack'[Len(stack)].pc = "resource"
             /\ stack'[Len(stack)].i = Top.i + 1]_vars

\* The budget was used below the seed page, the scans nested in it have
\* returned, and the link rule of the seed page was left at an anchor to /y.
C7_Witness ==
  /\ maxDepth >= 1
  /\ currentDepth = maxDepth
  /\ Len(stack) = 1
  /\ Running("resource")
  /\ Top.kind = "link"
  /\ Top.i = 2
  /\ Top.elem = Y
  /\ Len(scannedResourceInfo) >= 1

\* C8: the step that receives an error value or a status outside [200,300)
\* for an awaited fetch adds no record, starts no scan and goes on with the
\* next element of the same rule, the URL staying in scannedHosts; and a
\* fetch is only ever issued by readResourceContent for a URL that is not in
\* scannedHosts, which never loses an entry.
C8_FailedFetchIsSkipped ==
  [][/\ (Running("fetch") /\ Failure(response'))
          => /\ scannedResourceInfo' = scannedResourceInfo
             /\ Len(stack') = Len(stack)
             /\ stack'[Len(stack)].pc = "selector"
             /\ stack'[Len(stack)].i = Top.i
             /\ stack'[Len(stack)].j = Top.j + 1
             /\ Includes(scannedHosts', Top.currentHost)
     /\ (runState = "scanning" /\ fetchLog' # fetchLog)
          => ~Includes(scannedHosts, fetchLog'[Len(fetchLog')])
     /\ Len(scannedHosts') >= Len(scannedHosts)
     /\ SubSeq(scannedHosts', 1, Len(scannedHosts)) = scannedHosts]_vars

\* A linked page answered 404 and the loop is at the next anchor.
C8_Witness ==
  /\ ~response.error
  /\ response.status = 404
  /\ Running("selector")
  /\ Top.kind = "link"
  /\ Top.j = 1
  /\ scannedResourceInfo = <<>>

\* C9: a step that examines an element whose attribute value is "/" changes
\* neither scannedHosts, the depth counter, the records nor the fetches.
C9_RootPathHasNoEffect ==
  [][(Running("body") /\ Top.elem = ROOT)
     => UNCHANGED <<scannedHosts, currentDepth, scannedResourceInfo, fetchLog, inflight>>]_vars

\* An asset element with the value "/" is examined with the gate open, and the
\* URL it canonicalizes to has not been visited.
C9_Witness ==
  /\ Running("body")
  /\ Top.kind = "asset"
  /\ Top.elem = ROOT
  /\ ~DepthReached(currentDepth, maxDepth)
  /\ IsNewHost(cleanURL(ROOT), scannedHosts)

\* C10: at most one fetch is in flight at any time.
C10_OneFetchAtATime == Len(inflight) <= 1

\* A third fetch is in flight, the two before it answered.
C10_Witness == Len(fetchLog) = 3 /\ Len(inflight) = 1


\* C11: whenever cleanURL(u) is defined, cleanURL(cleanURL(u)) equals
\* cleanURL(u).
C11_CleanURLIdempotent ==
  (probe.pc = "again" /\ probe.out # Undefined) => probe.again = probe.out

\* C12: an argument with no path and the same argument with the path "/"
\* give the same cleanURL result, whenever the former gives one.
C12_EmptyPathEqualsSlash ==
  (probe.pc = "slashed" /\ probe.out # Undefined) => probe.slashed = probe.out

\* The seed's own URL with and without the trailing "/", and a relative
\* argument that is only a query.
C12_Witness ==
  /\ probe.pc = "slashed"
  /\ probe.auth = <<>>
  /\ probe.tail = <<"?", "q">>
  /\ Text(probe) # TextSlashed(probe)
  /\ probe.out = URL
  /\ probe.slashed = URL


\* C13: the depth counter changes in a step exactly when that step admits a
\* URL in a call for the link rule, which is the step that issues the fetch,
\* and then by +1; the answer of a fetch, an asset admission, a skipped
\* candidate and a return from a scan leave it as it is.
C13_DepthChangesOnlyAtLinkAdmission ==
  [][/\ (currentDepth' # currentDepth) <=>
          (/\ Running("body")
           /\ Top.kind = "link"
           /\ scannedHosts' = Append(scannedHosts, cleanURL(Top.elem))
           /\ inflight' = <<cleanURL(Top.elem)>>)
     /\ currentDepth' \in {currentDepth, currentDepth + 1}
     /\ response' # NoResponse => currentDepth' = currentDepth]_vars

\* With assets included, one asset and one link have been admitted, the link
\* fetch has just failed and the counter stands at 1.
C13_Witness ==
  /\ includeAssets
  /\ Len(stack) = 1
  /\ Running("selector")
  /\ Top.kind = "link"
  /\ Failure(response)
  /\ Len(scannedHosts) = 2
  /\ Len(fetchLog) = 3
  /\ currentDepth = 1


\* Where the record of a recorded resource stands in the result list.
RecordIndex(u) == CHOOSE p \in 1..Len(Resources) : Resources[p] = u

\* C14: a call that fetched a resource and awaits the scan of its content
\* stays as it is, its next sibling unexamined, until the scan directly above
\* it has returned, so every fetch and record in between belongs to that
\* scan; records are only appended, the scanned page's record stands before
\* those made beneath it, and the call then goes on with the next element.
C14_DepthFirstInDocumentOrder ==
  [][/\ \A k \in 1..(Len(stack) - 1) :
          /\ stack[k].pc = "scan"
          /\ stack[k + 1].page = stack[k].currentHost
          /\ Includes(Resources, stack[k].currentHost)
          /\ k + 1 < Len(stack) =>
               RecordIndex(stack[k].currentHost) < RecordIndex(stack[k + 1].currentHost)
          /\ \/ Len(stack') > k /\ stack'[k] = stack[k]
             \/ /\ k = Len(stack) - 1
                /\ Len(stack') = k
                /\ Top.i > Len(ResourcesOf(Top.kind))
                /\ stack'[k] = [stack[k] EXCEPT !.j = stack[k].j + 1, !.pc = "selector",
                                                !.currentHost = Undefined]
                /\ UNCHANGED <<scannedResourceInfo, fetchLog>>
     /\ \/ scannedResourceInfo' = scannedResourceInfo
        \/ /\ Running("fetch")
           /\ scannedResourceInfo' =
                Append(scannedResourceInfo, [resource |-> Top.currentHost])
           /\ \A k \in 1..(Len(stack) - 1) :
                RecordIndex(stack[k].currentHost) < Len(scannedResourceInfo')]_vars

\* /x was fetched from the seed page and /y from the page of /x; the record
\* of /y stands behind that of /x, and only now is the second anchor of the
\* seed page examined.
C14_Witness ==
  /\ ~includeAssets
  /\ Len(stack) = 1
  /\ Running("body")
  /\ Top.j = 1
  /\ Top.elem = HASH
  /\ Resources = <<URL \o X, URL \o Y>>
  /\ fetchLog = <<URL, URL \o X, URL \o Y>>


\* C15: with includeAssets the link rule of a page starts only in the step
\* in which the call for the asset rules of that page, past its last rule
\* (img, script, stylesheet link, taken one after the other), is over; a
\* scan starts with the asset rules; without includeAssets no call for the
\* asset rules exists.
C15_AssetRulesBeforeLinkRule ==
  [][\A k \in 1..Len(stack') :
       /\ ~includeAssets => stack'[k].kind = "link"
       /\ (includeAssets /\ stack'[k].kind = "link") =>
            /\ k <= Len(stack)
            /\ stack[k].page = stack'[k].page
            /\ \/ stack[k].kind = "link"
               \/ /\ k = Len(stack)
                  /\ stack[k].kind = "asset"
                  /\ stack[k].pc = "resource"
                  /\ stack[k].i = Len(ASSET_RESOURCES) + 1
                  /\ stack'[k].i = 1
                  /\ UNCHANGED <<scannedHosts, fetchLog>>
       /\ (k <= Len(stack) /\ stack[k].kind = "asset" /\ stack'[k].kind = "asset") =>
            /\ stack'[k].page = stack[k].page
            /\ stack'[k].i \in {stack[k].i, stack[k].i + 1}
       /\ (k > Len(stack) /\ includeAssets) =>
            stack'[k].kind = "asset" /\ stack'[k].i = 1]_vars

\* The asset rules of the seed page are over, with one asset admitted and
\* fetched, and the link rule of the seed page is at its first statement.
C15_Witness ==
  /\ includeAssets
  /\ stack = <<Frame("link", URL, "seed")>>
  /\ scannedHosts = <<URL \o X>>
  /\ fetchLog = <<URL, URL \o X>>


\* C16: a step taken on a candidate whose cleanURL result is already in
\* scannedHosts issues no fetch, makes no record and leaves the depth counter
\* and scannedHosts as they are, in a call for either kind of rule; so the
\* fetches issued by readResourceContent are those of scannedHosts, each
\* made once.
C16_KnownCandidateHasNoEffect ==
  [][/\ (Running("body") /\ Includes(scannedHosts, cleanURL(Top.elem))) =>
          UNCHANGED <<scannedHosts, currentDepth, scannedResourceInfo, fetchLog, inflight>>
     /\ Distinct(scannedHosts')
     /\ fetchLog' # <<>> => Tail(fetchLog') = scannedHosts']_vars

\* /x was admitted and fetched through an asset rule of the seed page, and
\* an anchor of the seed page with the same path is now examined with the
\* depth counter still at 0 and the gate open.
C16_Witness ==
  /\ includeAssets
  /\ maxDepth = 1
  /\ currentDepth = 0
  /\ Len(stack) = 1
  /\ Running("body")
  /\ Top.kind = "link"
  /\ Top.via = "seed"
  /\ Top.elem = X
  /\ scannedHosts = <<URL \o X>>
  /\ fetchLog = <<URL, URL \o X>>


\* C17: once the seed fetch has succeeded and the scan of its content has
\* begun, the promise of run() is eventually resolved with the list of
\* records made, for every maxDepth explored, -1 (a value the counter never
\* equals) included, and for pages that link back to pages already met.
C17_RunEventuallyResolves ==
  (runState = "scanning") ~> (promise = "resolved" /\ result = scannedResourceInfo)

\* With a maxDepth the counter never equals, the seed page linked to another
\* page and back to itself, both were fetched and recorded, and run()
\* resolved with the two records.
C17_Witness ==
  /\ maxDepth = -1
  /\ promise = "resolved"
  /\ Len(result) = 2
  /\ result = scannedResourceInfo
  /\ Includes(Resources, URL)
  /\ currentDepth = 2


\* A response with a status in [200,300).
Success(r) == r # NoResponse /\ ~r.error /\ r.status >= 200 /\ r.status < 300

\* C18: the step that receives a success response for a fetch awaited by a
\* call for the link rule starts the scan of the fetched page exactly when
\* the depth counter is 0 or at most maxDepth, the case counter = maxDepth
\* included; the scan starts at the first rule of the page.
C18_RecursionGuardIsInclusive ==
  [][(Running("fetch") /\ Top.kind = "link" /\ Success(response')) =>
       /\ (currentDepth = 0 \/ currentDepth <= maxDepth) <=> (Len(stack') = Len(stack) + 1)
       /\ Len(stack') = Len(stack) + 1 =>
            /\ stack'[Len(stack')].page = Top.currentHost
            /\ stack'[Len(stack')].via = "link"
            /\ stack'[Len(stack')].pc = "resource"
            /\ stack'[Len(stack')].i = 1
       /\ Len(stack') # Len(stack) + 1 => stack' = SetTop(Continue(Top))]_vars

\* The admission of /x made the counter equal to maxDepth, its fetch was
\* answered with success and the scan of its page has just started.
C18_Witness ==
  /\ ~includeAssets
  /\ maxDepth = 1
  /\ currentDepth = maxDepth
  /\ Success(response)
  /\ Len(stack) = 2
  /\ stack[1].pc = "scan"
  /\ stack[1].currentHost = URL \o X
  /\ Top = Frame("link", URL \o X, "link")
  /\ Resources = <<URL \o X>>

\* C19: for maxDepth >= 0 the depth counter equals the number of fetches
\* issued by calls for the link rule, answered with success or not, and lies
\* between 0 and maxDepth.
C19_DepthCountsLinkFetches ==
  maxDepth >= 0 =>
    /\ currentDepth = linkFetches
    /\ 0 <= currentDepth
    /\ currentDepth <= maxDepth

\* Two anchors of the seed page, each one hop from the seed, have used up a
\* maxDepth of 2; the first fetch made no record.
C19_Witness ==
  /\ ~includeAssets
  /\ maxDepth = 2
  /\ currentDepth = 2
  /\ linkFetches = 2
  /\ Len(stack) = 1
  /\ Running("fetch")
  /\ Top.j = 1
  /\ fetchLog = <<URL, URL \o X, URL \o Y>>
  /\ scannedResourceInfo = <<>>

\* C20: while the depth counter equals maxDepth, a step of a call for the
\* asset rules admits nothing, issues no fetch and makes no record; the
\* step that examines an element leaves the element loop of its rule.
C20_DepthGateBlocksAssets ==
  [][(stack # <<>> /\ Top.kind = "asset" /\ currentDepth = maxDepth) =>
       /\ UNCHANGED <<scannedHosts, scannedResourceInfo, fetchLog, inflight, currentDepth>>
       /\ response' = NoResponse
       /\ Running("body") =>
            stack' = SetTop([Top EXCEPT !.i = Top.i + 1, !.j = 0, !.pc = "resource"])]_vars

\* The link budget was used by the admission of /x; the asset rules of the
\* page of /x are processed and its first rule was left at an element with
\* the new path /y.
C20_Witness ==
  /\ includeAssets
  /\ maxDepth >= 1
  /\ currentDepth = maxDepth
  /\ Len(stack) = 2
  /\ Running("resource")
  /\ Top.kind = "asset"
  /\ Top.via = "link"
  /\ Top.page = URL \o X
  /\ Top.i = 2
  /\ Top.elem = Y
  /\ ~Includes(scannedHosts, URL \o Y)

====
